---- MODULE Spec2Model ----
(***************************************************************************)
(* Simulation engine of the x2gether queue protocol (App component):       *)
(* processDeposit, triggerGuillotine, handleMidnightReset, handleFullReset *)
(* and the configuration handlers that drive them.                         *)
(*                                                                         *)
(* Numbers.  The engine computes in IEEE doubles.  The model computes in   *)
(* fixed point: one currency unit is Scale model units, and every product  *)
(* with a decimal literal of the source (0.01, 0.20, 0.80, 0.05, x.y) is   *)
(* the corresponding integer multiplication followed by \div.  Scale is a  *)
(* multiple of 100 and of 5, so the fee, the pool split and the target of  *)
(* a whole-unit deposit are exact; a yield share that does not divide is   *)
(* truncated to the model unit.  Multipliers are kept in hundredths (2.0   *)
(* is 200).                                                                *)
(***************************************************************************)
EXTENDS Integers, Sequences, FiniteSets, TLC

\* ------------------------------------------------------------------ bounds
\* engine operations explored after an initial state or a full reset
MaxDepth == 2
\* timer deposits in a row that the page is left alone for
MaxArrivals == 5

\* ------------------------------------------------------- units, constants
Scale == 60 * 100
Units(n) == n * Scale

INITIAL_RESERVE == 1000
FEE_PERCENT == 1
GUILLOTINE_INTERVAL == 60
MIN_FEE == 1
YIELD_PERCENT == 20
HEAD_PERCENT == 80
SLASH_PERCENT == 80
TAX_PERCENT == 20
DECAY_STEP == 5
DECAY_BLOCK == 10
MIN_MULTIPLIER == 110
DEFAULT_MULTIPLIER == 200
MIN_CROWD == 5
TOP_WHALES == 30
MAX_VICTIMS == 10
FAST_EXIT_MS == 10000
SEED_AMOUNT == 100
MANUAL_DEPOSIT == 100
CHART_CAP == 100
SLICE == 8

\* p.collected >= p.target - 0.01
EPS == Scale \div 100

PROTOCOL_SEED == 0

Max(a, b) == IF a >= b THEN a ELSE b
Min(a, b) == IF a <= b THEN a ELSE b

\* x * (pct / 100) for the percentage literals of the source
Pct(x, pct) == (x * pct) \div 100

RECURSIVE SumSeq(_)
SumSeq(s) == IF s = <<>> THEN 0 ELSE Head(s) + SumSeq(Tail(s))

Liability(p) == p.target - p.collected

\* state.queue.reduce((acc, p) => acc + (p.target - p.collected), 0)
TotalLiability(q) == SumSeq([i \in DOMAIN q |-> Liability(q[i])])

\* ------------------------------------------------------------ the engine
\* useRef<EngineState>({...}) and handleFullReset's literal
InitialEngine ==
  [ queue |-> <<>>,
    historyCount |-> 0,
    historySum |-> 0,
    totalDeposited |-> 0,
    protocolBalance |-> Units(INITIAL_RESERVE),
    currentRound |-> 1,
    chartData |-> <<>>,
    tickCount |-> 0 ]

\* ---------------------------------------------------------- The Guillotine
\* rank of queue[i] in [...queue].filter(!slashed).sort(by liability desc):
\* Array.prototype.sort is stable, ties keep queue order
WhaleRank(q, i) ==
  Cardinality({ j \in DOMAIN q :
      /\ ~q[j].slashed
      /\ \/ Liability(q[j]) > Liability(q[i])
         \/ Liability(q[j]) = Liability(q[i]) /\ j < i })

\* variant: no `.filter(p => !p.slashed)`
Candidates_slashedToo(q) ==
  { i \in DOMAIN q : WhaleRank(q, i) < TOP_WHALES }

\* candidates: the not-slashed members among the first 30 of that order
Candidates(q) ==
  { i \in DOMAIN q : ~q[i].slashed /\ WhaleRank(q, i) < TOP_WHALES }

\* the outcomes of the ten Math.random() draws without replacement
VictimSets(q) ==
  IF Len(q) < MIN_CROWD THEN { {} }
  ELSE { V \in SUBSET Candidates(q) :
           Cardinality(V) = Min(MAX_VICTIMS, Cardinality(Candidates(q))) }

\* variant: the haircut leaves no mark
Slash_unmarked(p) == [p EXCEPT !.target = Pct(@, SLASH_PERCENT)]

\* variant: the haircut applied as a 20% raise
Slash_raise(p) == [p EXCEPT !.target = Pct(@, 200 - SLASH_PERCENT), !.slashed = TRUE]

\* v.target = originalTarget * 0.80; v.slashed = true
Slash(p) == [p EXCEPT !.target = Pct(@, SLASH_PERCENT), !.slashed = TRUE]

triggerGuillotine(q, V) ==
  IF Len(q) < MIN_CROWD THEN q
  ELSE LET F[i \in 0..Len(q)] ==
             IF i = 0 THEN <<>>
             ELSE Append(F[i - 1], IF i \in V THEN Slash(q[i]) ELSE q[i])
       IN F[Len(q)]

\* ---------------------------------------------------------- processDeposit
\* variant: the counter read before `state.tickCount++`
GuillotineDue_beforeIncrement(cfg, tick) ==
  cfg.guillotineEnabled /\ (tick - 1) % GUILLOTINE_INTERVAL = 0

\* guillotineEnabled && state.tickCount % GUILLOTINE_INTERVAL === 0
GuillotineDue(cfg, tick) ==
  cfg.guillotineEnabled /\ tick % GUILLOTINE_INTERVAL = 0

\* variant: the floor of the fee is 100
ActualFee_floor100(amount, isSystem) ==
  IF isSystem THEN 0 ELSE Max(Units(SEED_AMOUNT), Pct(amount, FEE_PERCENT))

\* variant: no minimum fee
ActualFee_noMin(amount, isSystem) ==
  IF isSystem THEN 0 ELSE Pct(amount, FEE_PERCENT)

\* 1. Take Fee (if not system)
ActualFee(amount, isSystem) ==
  IF isSystem THEN 0 ELSE Max(Units(MIN_FEE), Pct(amount, FEE_PERCENT))

NetAmount(amount, isSystem) == amount - ActualFee(amount, isSystem)

\* variant: the ledger counts the amount after the fee
TotalDeposited_net(e, amount) == e.totalDeposited + NetAmount(amount, FALSE)

\* state.totalDeposited += amount
TotalDeposited(e, amount) == e.totalDeposited + amount

\* 2. Define Distribution Pools
YieldPool(cfg, net) ==
  IF cfg.strategy = "COMMUNITY_YIELD" THEN Pct(net, YIELD_PERCENT) ELSE 0

HeadPool(cfg, net) ==
  IF cfg.strategy = "COMMUNITY_YIELD" THEN Pct(net, HEAD_PERCENT) ELSE net

\* variant: no Math.max(1.1, ...)
EffectiveMultiplier_noFloor(cfg, qlen, isSystem) ==
  IF cfg.dynamicDecayEnabled /\ ~isSystem
  THEN cfg.multiplier - (qlen \div DECAY_BLOCK) * DECAY_STEP
  ELSE cfg.multiplier

\* 3. Dynamic Decay Calculation (multipliers in hundredths)
EffectiveMultiplier(cfg, qlen, isSystem) ==
  IF cfg.dynamicDecayEnabled /\ ~isSystem
  THEN Max(MIN_MULTIPLIER, cfg.multiplier - (qlen \div DECAY_BLOCK) * DECAY_STEP)
  ELSE cfg.multiplier

\* variant: the entry round is the round to come
NewPlayer_nextRound(cfg, e, amount, isSystem, nowMs, tick) ==
  [ id |-> IF isSystem THEN PROTOCOL_SEED ELSE tick,
    deposit |-> amount,
    target |-> (amount \div 100) * EffectiveMultiplier(cfg, Len(e.queue), isSystem),
    collected |-> 0,
    entryRound |-> e.currentRound + 1,
    timestamp |-> nowMs,
    slashed |-> FALSE ]

\* variant: on an empty queue the new participant keeps the net amount
NewPlayer_keepsNet(cfg, e, amount, isSystem, nowMs, tick) ==
  [ id |-> IF isSystem THEN PROTOCOL_SEED ELSE tick,
    deposit |-> amount,
    target |-> (amount \div 100) * EffectiveMultiplier(cfg, Len(e.queue), isSystem),
    collected |-> IF e.queue = <<>> THEN NetAmount(amount, isSystem) ELSE 0,
    entryRound |-> e.currentRound,
    timestamp |-> nowMs,
    slashed |-> FALSE ]

\* 4. Create Player.  uuidv4() is a fresh id: the sequence number of the
\* deposit, which no queued player carries.  The literal sets no multiplier.
NewPlayer(cfg, e, amount, isSystem, nowMs, tick) ==
  [ id |-> IF isSystem THEN PROTOCOL_SEED ELSE tick,
    deposit |-> amount,
    target |-> (amount \div 100) * EffectiveMultiplier(cfg, Len(e.queue), isSystem),
    collected |-> 0,
    entryRound |-> e.currentRound,
    timestamp |-> nowMs,
    slashed |-> FALSE ]

\* variant: the credit stops at the target
DistributeYield_capped(q, yieldPool) ==
  IF yieldPool > 0 /\ Len(q) > 0
  THEN LET yieldPerUser == yieldPool \div Len(q)
            F[i \in 0..Len(q)] ==
              IF i = 0 THEN <<>>
              ELSE Append(F[i - 1],
                     [q[i] EXCEPT !.collected = Min(q[i].target, @ + yieldPerUser)])
       IN F[Len(q)]
  ELSE q

\* 5. Distribute Yield (Drip)
DistributeYield(q, yieldPool) ==
  IF yieldPool > 0 /\ Len(q) > 0
  THEN LET yieldPerUser == yieldPool \div Len(q)
            F[i \in 0..Len(q)] ==
              IF i = 0 THEN <<>>
              ELSE Append(F[i - 1], [q[i] EXCEPT !.collected = @ + yieldPerUser])
       IN F[Len(q)]
  ELSE q

\* 6. Distribute to Head (FIFO): the loop from position i with `remaining`
RECURSIVE HeadWalk(_, _, _)
HeadWalk(q, i, remaining) ==
  IF i > Len(q) \/ remaining <= 0 THEN [queue |-> q, remaining |-> remaining]
  ELSE LET needed == q[i].target - q[i].collected IN
       IF needed <= 0 THEN HeadWalk(q, i + 1, remaining)
       ELSE IF remaining >= needed
            THEN HeadWalk([q EXCEPT ![i].collected = @ + needed], i + 1,
                          remaining - needed)
            ELSE HeadWalk([q EXCEPT ![i].collected = @ + remaining], i + 1, 0)

\* variant: the walk ends at the first participant with nothing left to
\* receive (`break` in place of `continue`)
DistributeHead_breakAtPaid(q, headPool) ==
  LET F[i \in 0..Len(q)] ==
        IF i = 0 THEN [queue |-> <<>>, remaining |-> headPool]
        ELSE LET needed == q[i].target - q[i].collected
                 prev == F[i - 1]
                 pay == IF needed <= 0 THEN 0 ELSE Min(needed, prev.remaining)
             IN [ queue |-> Append(prev.queue,
                                   [q[i] EXCEPT !.collected = @ + pay]),
                  remaining |-> IF needed <= 0 THEN 0
                                ELSE prev.remaining - pay ]
  IN F[Len(q)]

\* variant: only the head of the line is paid
DistributeHead_headOnly(q, headPool) ==
  IF q = <<>> THEN [queue |-> q, remaining |-> headPool]
  ELSE LET w == HeadWalk(<< q[1] >>, 1, headPool)
       IN [queue |-> w.queue \o Tail(q), remaining |-> w.remaining]

\* variant: the walk runs from the back of the line to the front
DistributeHead_lastFirst(q, headPool) ==
  LET Rev(s) == LET F[i \in 0..Len(s)] ==
                      IF i = 0 THEN <<>>
                      ELSE Append(F[i - 1], s[Len(s) + 1 - i])
                IN F[Len(s)]
      w == HeadWalk(Rev(q), 1, headPool)
  IN [queue |-> Rev(w.queue), remaining |-> w.remaining]

DistributeHead(q, headPool) == HeadWalk(q, 1, headPool)

\* variant: the sweep takes only those above their target
IsPaid_above(p) == p.collected > p.target

\* variant: the sweep tests for equality
IsPaid_exact(p) == p.collected = p.target

\* 8. Cleanup Sweep
IsPaid(p) == p.collected >= p.target - EPS

\* the loop `for (const p of state.queue)` collecting the players at the
\* positions S, in queue order
Collect(q, S) ==
  LET F[i \in 0..Len(q)] ==
        IF i = 0 THEN <<>>
        ELSE IF i \in S THEN Append(F[i - 1], q[i]) ELSE F[i - 1]
  IN F[Len(q)]

\* variant: the sweep books what the participant had collected as its target
Exited_byCollected(q) ==
  LET out == Collect(q, { i \in DOMAIN q : IsPaid(q[i]) })
      F[i \in 0..Len(out)] ==
        IF i = 0 THEN <<>>
        ELSE Append(F[i - 1], [out[i] EXCEPT !.target = out[i].collected])
  IN F[Len(out)]

\* variant: no `p.collected = p.target`
Exited_noClamp(q) == Collect(q, { i \in DOMAIN q : IsPaid(q[i]) })

\* the players the sweep takes out, p.collected = p.target applied
Exited(q) ==
  LET out == Collect(q, { i \in DOMAIN q : IsPaid(q[i]) })
      F[i \in 0..Len(out)] ==
        IF i = 0 THEN <<>>
        ELSE Append(F[i - 1], [out[i] EXCEPT !.collected = out[i].target])
  IN F[Len(out)]

\* nextQueue
Remaining(q) == Collect(q, { i \in DOMAIN q : ~IsPaid(q[i]) })

\* variant: no `Date.now() - p.timestamp < 10000`
WinnersTax_anyTime(cfg, p, isSystem, nowMs) ==
  IF cfg.winnersTaxEnabled /\ ~isSystem /\ p.collected - p.deposit > 0
  THEN Pct(p.collected - p.deposit, TAX_PERCENT)
  ELSE 0

\* WINNERS TAX LOGIC for one exiting player (collected already = target)
WinnersTax(cfg, p, isSystem, nowMs) ==
  IF cfg.winnersTaxEnabled /\ ~isSystem /\ nowMs - p.timestamp < FAST_EXIT_MS
     /\ p.collected - p.deposit > 0
  THEN Pct(p.collected - p.deposit, TAX_PERCENT)
  ELSE 0

\* variant: a full series takes no new sample
ChartPush_dropNewest(chart, point) ==
  IF Len(chart) >= CHART_CAP THEN chart ELSE Append(chart, point)

\* 9. Update Chart Data
ChartPush(chart, point) ==
  LET pushed == Append(chart, point)
  IN IF Len(pushed) > CHART_CAP THEN Tail(pushed) ELSE pushed

\* The whole of processDeposit on engine state e.  V is the outcome of the
\* random draws of triggerGuillotine (used only when the guillotine is due).
\* The result carries the engine after the call and the values the call
\* went through on the way.
processDeposit(cfg, e, amount, isSystem, nowMs, V) ==
  LET tick       == e.tickCount + 1
      due        == GuillotineDue(cfg, tick)
      afterSlash == IF due THEN triggerGuillotine(e.queue, V) ELSE e.queue
      fee        == ActualFee(amount, isSystem)
      net        == NetAmount(amount, isSystem)
      balFee     == e.protocolBalance + fee
      total      == TotalDeposited(e, amount)
      headPool   == HeadPool(cfg, net)
      yieldPool  == YieldPool(cfg, net)
      newPlayer  == NewPlayer(cfg, e, amount, isSystem, nowMs, tick)
      afterYield == DistributeYield(afterSlash, yieldPool)
      walk       == DistributeHead(afterYield, headPool)
      afterWalk  == walk.queue
      pushed     == Append(afterWalk, newPlayer)
      exited     == Exited(pushed)
      nextQueue  == Remaining(pushed)
      tax        == SumSeq([i \in DOMAIN exited |->
                              WinnersTax(cfg, exited[i], isSystem, nowMs)])
      point      == [ round |-> total,
                      usersTrapped |-> Len(nextQueue),
                      requiredNewLiquidity |-> TotalLiability(nextQueue) ]
  IN [ engine |->
         [ queue |-> nextQueue,
           historyCount |-> e.historyCount + Len(exited),
           historySum |-> e.historySum
                            + SumSeq([i \in DOMAIN exited |-> exited[i].target]),
           totalDeposited |-> total,
           protocolBalance |-> balFee + tax,
           currentRound |-> e.currentRound,
           chartData |-> ChartPush(e.chartData, point),
           tickCount |-> tick ],
       trace |->
         [ amount |-> amount, isSystem |-> isSystem, pre |-> e,
           slashDue |-> due, afterSlash |-> afterSlash,
           fee |-> fee, net |-> net, balanceAfterFee |-> balFee,
           headPool |-> headPool, yieldPool |-> yieldPool,
           afterYield |-> afterYield, afterWalk |-> afterWalk,
           unallocated |-> walk.remaining,
           newPlayer |-> newPlayer, exited |-> exited, tax |-> tax ] ]

\* ------------------------------------------------------ handleMidnightReset
\* 1. REFUND PHASE: the loop from position i with `surplus`
RECURSIVE RefundWalk(_, _, _)
RefundWalk(q, i, surplus) ==
  IF i > Len(q) \/ surplus <= 0 THEN [queue |-> q, surplus |-> surplus]
  ELSE LET remainingPrincipal == Max(0, q[i].deposit - q[i].collected)
           pay == Min(surplus, remainingPrincipal)
       IN IF remainingPrincipal > 0
          THEN RefundWalk([q EXCEPT ![i].collected = @ + pay], i + 1, surplus - pay)
          ELSE RefundWalk(q, i + 1, surplus)

\* variant: the whole reserve counts as surplus
Surplus_noFloor(balance) == Max(0, balance)

Surplus(balance) == Max(0, balance - Units(INITIAL_RESERVE))

\* variant: the assignment moved out of `if (surplus > 0)`
BalanceAfterRefund_always(balance, surplusLeft) ==
  Units(INITIAL_RESERVE) + surplusLeft

\* protocolBalance after the refund phase: assigned only inside `if (surplus > 0)`
BalanceAfterRefund(balance, surplusLeft) ==
  IF Surplus(balance) > 0 THEN Units(INITIAL_RESERVE) + surplusLeft ELSE balance

\* variant: the seed is taken from any reserve
SeedDue_always(balance) == TRUE

\* variant: the seed needs more than 100
SeedDue_strict(balance) == balance > Units(SEED_AMOUNT)

\* 4. PROTOCOL SEED condition
SeedDue(balance) == balance >= Units(SEED_AMOUNT)

\* variant: the queue is not cleared
Wipe_keep(q) == q

\* 2. WIPE
Wipe(q) == <<>>

\* variant: the participants the refund made whole are booked as exited
handleMidnightReset_countsRefunded(cfg, e, nowMs) ==
  LET surplus  == Surplus(e.protocolBalance)
      refund   == IF surplus > 0 THEN RefundWalk(e.queue, 1, surplus)
                  ELSE [queue |-> e.queue, surplus |-> surplus]
      balance  == BalanceAfterRefund(e.protocolBalance, refund.surplus)
      made     == { k \in DOMAIN refund.queue :
                      /\ refund.queue[k].collected > e.queue[k].collected
                      /\ refund.queue[k].collected >= refund.queue[k].deposit }
      wiped    == [e EXCEPT !.queue = Wipe(refund.queue),
                            !.historyCount = @ + Cardinality(made),
                            !.protocolBalance = balance,
                            !.currentRound = @ + 1]
      seeded   == SeedDue(balance)
      seed     == processDeposit(cfg,
                     [wiped EXCEPT !.protocolBalance = @ - Units(SEED_AMOUNT)],
                     Units(SEED_AMOUNT), TRUE, nowMs, {})
  IN [ engine |-> IF seeded THEN seed.engine ELSE wiped,
       trace |->
         [ pre |-> e, surplus |-> surplus, afterRefund |-> refund.queue,
           surplusLeft |-> refund.surplus, balanceAfterRefund |-> balance,
           seeded |-> seeded,
           seed |-> IF seeded THEN seed.trace ELSE [amount |-> 0] ] ]

handleMidnightReset(cfg, e, nowMs) ==
  LET surplus  == Surplus(e.protocolBalance)
      refund   == IF surplus > 0 THEN RefundWalk(e.queue, 1, surplus)
                  ELSE [queue |-> e.queue, surplus |-> surplus]
      balance  == BalanceAfterRefund(e.protocolBalance, refund.surplus)
      wiped    == [e EXCEPT !.queue = Wipe(refund.queue),
                            !.protocolBalance = balance,
                            !.currentRound = @ + 1]
      seeded   == SeedDue(balance)
      seed     == processDeposit(cfg,
                     [wiped EXCEPT !.protocolBalance = @ - Units(SEED_AMOUNT)],
                     Units(SEED_AMOUNT), TRUE, nowMs, {})
  IN [ engine |-> IF seeded THEN seed.engine ELSE wiped,
       trace |->
         [ pre |-> e, surplus |-> surplus, afterRefund |-> refund.queue,
           surplusLeft |-> refund.surplus, balanceAfterRefund |-> balance,
           seeded |-> seeded,
           seed |-> IF seeded THEN seed.trace ELSE [amount |-> 0] ] ]

\* ------------------------------------------------------------------ syncUI
\* variant: no slice(0, 8)
syncUI_wholeQueue(e, cfg) ==
  [ queueSlice |-> e.queue,
    stats |->
      [ totalDeposited |-> e.totalDeposited,
        totalPaidOut |-> e.historySum,
        totalUsers |-> e.historyCount + Len(e.queue),
        usersPaidExit |-> e.historyCount,
        usersTrapped |-> Len(e.queue),
        currentQueueLength |-> Len(e.queue),
        currentRound |-> e.currentRound,
        protocolBalance |-> e.protocolBalance ],
    chartData |-> e.chartData,
    headPlayer |-> IF e.queue = <<>> THEN <<>> ELSE << e.queue[1] >> ]

\* the object setUiSnapshot receives.  headPlayer is a sequence of at most
\* one player: <<>> stands for null.  The five fields of stats that repeat
\* the configuration of the render the callback belongs to (strategy,
\* multiplier and the three switches) are left out: nothing reads them back
\* into the engine.
syncUI(e, cfg) ==
  [ queueSlice |-> SubSeq(e.queue, 1, Min(SLICE, Len(e.queue))),
    stats |->
      [ totalDeposited |-> e.totalDeposited,
        totalPaidOut |-> e.historySum,
        totalUsers |-> e.historyCount + Len(e.queue),
        usersPaidExit |-> e.historyCount,
        usersTrapped |-> Len(e.queue),
        currentQueueLength |-> Len(e.queue),
        currentRound |-> e.currentRound,
        protocolBalance |-> e.protocolBalance ],
    chartData |-> e.chartData,
    headPlayer |-> IF e.queue = <<>> THEN <<>> ELSE << e.queue[1] >> ]

\* useState({...}): the snapshot before the first syncUI
InitialSnapshot ==
  syncUI(InitialEngine,
         [ multiplier |-> DEFAULT_MULTIPLIER, strategy |-> "STANDARD",
           guillotineEnabled |-> FALSE, dynamicDecayEnabled |-> FALSE,
           winnersTaxEnabled |-> FALSE ])

\* queueSlice and headPlayer hold the Player objects themselves
\* (slice copies the array, not its elements), so a later write to a
\* player shows through the snapshot.  A player object is known by its id
\* and entry round; objs are the objects a handler has written to, as it
\* left them.
SameObject(a, b) == a.id = b.id /\ a.entryRound = b.entryRound

Current(p, objs) ==
  IF \E k \in DOMAIN objs : SameObject(objs[k], p)
  THEN objs[CHOOSE k \in DOMAIN objs : SameObject(objs[k], p)]
  ELSE p

Reread(ps, objs) ==
  LET F[i \in 0..Len(ps)] ==
        IF i = 0 THEN <<>> ELSE Append(F[i - 1], Current(ps[i], objs))
  IN F[Len(ps)]

Seen(snapshot, objs) ==
  [ snapshot EXCEPT !.queueSlice = Reread(@, objs),
                    !.headPlayer = Reread(@, objs) ]

\* ------------------------------------------------------------------ state
VARIABLES
  engine,               \* engine.current
  multiplier,           \* useState(2.0), in hundredths
  strategy,             \* useState(DistributionStrategy.STANDARD)
  guillotineEnabled,
  dynamicDecayEnabled,
  winnersTaxEnabled,
  status,               \* SimulationStatus
  uiSnapshot,           \* useState: what the page renders
  now,                  \* Date.now(), ms since the page was opened
  session,              \* the opening clicks and timer ticks still to come
  depth,                \* engine operations since the opening or the last reset
  last,                 \* the handler that ran last and what it went through
  apiKey,               \* process.env.API_KEY is set
  ai,                   \* the advisory client was constructed (ai is not null)
  analysis,             \* useState(''): the text of the audit panel
  isAnalyzing,          \* useState(false)
  pending               \* handleAnalyze is waiting for analyzeRisk

vars == << engine, multiplier, strategy, guillotineEnabled, dynamicDecayEnabled,
           winnersTaxEnabled, status, uiSnapshot, now, session, depth, last,
           apiKey, ai, analysis, isAnalyzing, pending >>

advisorVars == << apiKey, ai, analysis, isAnalyzing, pending >>

cfgVars == << multiplier, strategy, guillotineEnabled, dynamicDecayEnabled,
              winnersTaxEnabled >>

\* the values the closures of one render capture
Config ==
  [ multiplier |-> multiplier, strategy |-> strategy,
    guillotineEnabled |-> guillotineEnabled,
    dynamicDecayEnabled |-> dynamicDecayEnabled,
    winnersTaxEnabled |-> winnersTaxEnabled ]

\* positions of the range input explored (its minimum 1.1 and the default 2.0)
Multipliers == { MIN_MULTIPLIER, DEFAULT_MULTIPLIER }
Strategies == { "STANDARD", "COMMUNITY_YIELD" }
\* Math.floor(Math.random() * 990) + 10 lies in 10..999; the ends are explored
TimerAmounts == { 10, 999 }

\* -------------------------------------------------------- opening sessions
\* States deep in a run (the 60th deposit, a drained reserve) lie further
\* from the initial state than an exhaustive search goes.  A behaviour may
\* therefore open with a fixed session of clicks and timer ticks, taken one
\* step at a time by the same actions as everything else; the free
\* exploration of MaxDepth operations starts where the session ends.
RECURSIVE Times(_, _)
Times(n, op) == IF n = 0 THEN <<>> ELSE << op >> \o Times(n - 1, op)
Manual == [op |-> "manual", amount |-> MANUAL_DEPOSIT]
Timer(a) == [op |-> "timer", amount |-> a]
Mid == [op |-> "mid", amount |-> 0]
Auto == [op |-> "auto", amount |-> 0]
Guillo == [op |-> "guillotine", amount |-> 0]

\* the timer: 50 small deposits; a midnight reset; one large and seven small
\* deposits.  Eight players are queued and the next deposit is the 60th.
CrowdSession ==
  << Auto >> \o Times(50, Timer(10)) \o << Mid, Timer(999) >> \o Times(7, Timer(10))

\* two large deposits from the timer: the first is nearly refunded
PairSession == << Auto, Timer(999), Timer(999) >>

\* nine midnight resets in a row: the reserve is down to one seed
DrainSession == Times(9, Mid)

\* the guillotine switched on and 119 deposits from the timer.  The 60th
\* deposit finds ten players queued and slashes them all; before the 120th,
\* three of them are still queued, with eleven players that came later.
GuillotineSession ==
  << Auto, Guillo >> \o Times(43, Timer(10)) \o Times(20, Timer(999))
    \o Times(49, Timer(10)) \o Times(7, Timer(999))

\* 55 deposits and a midnight reset; the seed is the 56th deposit, a large
\* and two small deposits follow.  Three players are queued and the next
\* deposit is the 60th.
ThinSession ==
  << Auto >> \o Times(55, Timer(10)) \o << Mid, Timer(999), Timer(10), Timer(10) >>

\* the guillotine switched on, 54 deposits and a midnight reset; the seed is
\* the 55th deposit, and the next four pay it 99.99 + 10 + 10 + 40 = 159.99
\* of its 200.  Five players are queued and the next deposit is the 60th.
DustSession ==
  << Auto, Guillo >> \o Times(54, Timer(10))
    \o << Mid, Timer(101), Timer(11), Timer(11), Timer(41) >>

\* the guillotine switched on and 60 small deposits, at the multiplier 1.1:
\* the 60th slashes ten of the players queued to 0.88 of their deposit,
\* and the fees have raised the reserve by 60
HaircutSession == << Auto, Guillo >> \o Times(60, Timer(10))

\* a large deposit and 21 small ones behind it: 22 players are queued, two
\* full blocks of ten
DecaySession == << Auto, Timer(999) >> \o Times(21, Timer(10))

\* the openings explored: a session, the multiplier and strategy set before
\* it, and how many of the MaxDepth free operations the session counts for
Opening(s, m, st) == [session |-> s, multiplier |-> m, strategy |-> st, depth |-> 0]
Openings ==
  { Opening(<<>>, DEFAULT_MULTIPLIER, "STANDARD"),
    Opening(CrowdSession, MIN_MULTIPLIER, "STANDARD"),
    Opening(CrowdSession, DEFAULT_MULTIPLIER, "COMMUNITY_YIELD"),
    Opening(DrainSession, DEFAULT_MULTIPLIER, "STANDARD"),
    Opening(PairSession, DEFAULT_MULTIPLIER, "STANDARD"),
    [ Opening(GuillotineSession, DEFAULT_MULTIPLIER, "COMMUNITY_YIELD")
        EXCEPT !.depth = 1 ],
    [ Opening(ThinSession, DEFAULT_MULTIPLIER, "STANDARD") EXCEPT !.depth = 1 ],
    [ Opening(DustSession, DEFAULT_MULTIPLIER, "STANDARD") EXCEPT !.depth = 1 ],
    [ Opening(HaircutSession, MIN_MULTIPLIER, "STANDARD") EXCEPT !.depth = 1 ],
    [ Opening(DecaySession, MIN_MULTIPLIER, "STANDARD") EXCEPT !.depth = 1 ],
    [ Opening(DecaySession, DEFAULT_MULTIPLIER, "STANDARD") EXCEPT !.depth = 1 ] }

Free == session = <<>>
Scripted(op) == session # <<>> /\ Head(session) = op

\* an engine operation: the next step of the session, or one of the
\* MaxDepth free ones
Admit(op) ==
  \/ /\ Free
     /\ depth < MaxDepth
     /\ depth' = depth + 1
     /\ UNCHANGED session
  \/ /\ Scripted(op)
     /\ session' = Tail(session)
     /\ UNCHANGED depth

\* a click that is no engine operation
AdmitClick(op) ==
  \/ Free /\ UNCHANGED session
  \/ Scripted(op) /\ session' = Tail(session)

\* ------------------------------------------------------------------- Init
\* the state after construction; a multiplier or strategy other than the
\* default is the state after the first move of the slider or strategy
\* button (setMultiplier / setStrategy; handleFullReset)
Start(o, env) ==
  /\ engine = InitialEngine
  /\ session = o.session
  /\ multiplier = o.multiplier
  /\ strategy = o.strategy
  /\ depth = o.depth
  /\ guillotineEnabled = FALSE
  /\ dynamicDecayEnabled = FALSE
  /\ winnersTaxEnabled = FALSE
  /\ status = "IDLE"
  /\ uiSnapshot = InitialSnapshot
  /\ now = 0
  /\ last = [op |-> "init"]
  /\ apiKey = env.apiKey
  /\ ai = env.ai
  /\ analysis = ""
  /\ isAnalyzing = FALSE
  /\ pending = FALSE

\* a build with the key set and the client constructed
Deployed == [apiKey |-> TRUE, ai |-> TRUE]

Init == \E o \in Openings : Start(o, Deployed)

\* ---------------------------------------------------------------- actions
Deposit(amount) ==
  /\ \E V \in (IF GuillotineDue(Config, engine.tickCount + 1)
               THEN VictimSets(engine.queue) ELSE { {} }) :
       LET r == processDeposit(Config, engine, amount, FALSE, now, V) IN
         /\ engine' = r.engine
         /\ last' = [op |-> "deposit", dep |-> r.trace]
  /\ UNCHANGED << cfgVars, status, now, advisorVars >>

\* the objects a processDeposit call wrote to
Written(trace, e) == trace.exited \o e.queue

\* handleManualDeposit: processDeposit(manualDepositAmount); syncUI()
ManualDeposit ==
  /\ Admit(Manual)
  /\ Deposit(Units(MANUAL_DEPOSIT))
  /\ uiSnapshot' = syncUI(engine', Config)

\* the setInterval callback, installed while status is RUNNING
\* Math.floor(Math.random() * 990) + 10: the amount the session names, or
\* one of TimerAmounts after it
TimerDraws ==
  IF Free THEN TimerAmounts
  ELSE IF Head(session).op = "timer" THEN { Head(session).amount } ELSE {}

TimerDeposit ==
  /\ status = "RUNNING"
  /\ \E a \in TimerDraws : Admit(Timer(a)) /\ Deposit(Units(a))
  /\ uiSnapshot' = Seen(uiSnapshot, Written(last'.dep, engine'))

MidnightReset ==
  /\ Admit(Mid)
  /\ LET r == handleMidnightReset(Config, engine, now) IN
       /\ engine' = r.engine
       /\ last' = [op |-> "midnight", mid |-> r.trace, dep |-> r.trace.seed]
       /\ uiSnapshot' = Seen(uiSnapshot, r.trace.afterRefund \o r.engine.queue)
  /\ UNCHANGED << cfgVars, status, now, advisorVars >>

\* variant: the reset keeps totalDeposited
FullResetEffect_keepsLedger(by) ==
  /\ Free
  /\ status' = "IDLE"
  /\ engine' = [InitialEngine EXCEPT !.totalDeposited = engine.totalDeposited]
  /\ uiSnapshot' = syncUI(engine', Config)
  /\ depth' = 0
  /\ last' = [op |-> "reset", by |-> by, ticks |-> engine.tickCount]
  /\ UNCHANGED << now, session, advisorVars >>

\* handleFullReset; `by` is the control that called it and `ticks` remembers
\* how many deposits it wiped out
FullResetEffect(by) ==
  /\ Free
  /\ status' = "IDLE"
  /\ engine' = InitialEngine
  /\ uiSnapshot' = syncUI(InitialEngine, Config)
  /\ depth' = 0
  /\ last' = [op |-> "reset", by |-> by, ticks |-> engine.tickCount]
  /\ UNCHANGED << now, session, advisorVars >>

FullReset ==
  /\ FullResetEffect("button")
  /\ UNCHANGED cfgVars

\* variant: the range input without handleFullReset()
SetMultiplier_noReset ==
  /\ Free
  /\ \E m \in Multipliers : multiplier' = m
  /\ last' = [op |-> "toggle"]
  /\ UNCHANGED << engine, strategy, guillotineEnabled, dynamicDecayEnabled,
                  winnersTaxEnabled, status, uiSnapshot, now, session, depth,
                  advisorVars >>

\* onChange of the range input: setMultiplier(...); handleFullReset()
SetMultiplier ==
  /\ \E m \in Multipliers : multiplier' = m
  /\ FullResetEffect("multiplier")
  /\ UNCHANGED << strategy, guillotineEnabled, dynamicDecayEnabled, winnersTaxEnabled >>

\* onClick of the strategy buttons: setStrategy(...); handleFullReset()
SetStrategy ==
  /\ \E s \in Strategies : strategy' = s
  /\ FullResetEffect("strategy")
  /\ UNCHANGED << multiplier, guillotineEnabled, dynamicDecayEnabled, winnersTaxEnabled >>

ToggleGuillotine ==
  /\ AdmitClick(Guillo)
  /\ guillotineEnabled' = ~guillotineEnabled
  /\ last' = [op |-> "toggle"]
  /\ UNCHANGED << engine, multiplier, strategy, dynamicDecayEnabled,
                  winnersTaxEnabled, status, uiSnapshot, now, depth, advisorVars >>

ToggleDecay ==
  /\ Free
  /\ dynamicDecayEnabled' = ~dynamicDecayEnabled
  /\ last' = [op |-> "toggle"]
  /\ UNCHANGED << engine, multiplier, strategy, guillotineEnabled,
                  winnersTaxEnabled, status, uiSnapshot, now, session, depth,
                  advisorVars >>

ToggleTax ==
  /\ Free
  /\ winnersTaxEnabled' = ~winnersTaxEnabled
  /\ last' = [op |-> "toggle"]
  /\ UNCHANGED << engine, multiplier, strategy, guillotineEnabled,
                  dynamicDecayEnabled, status, uiSnapshot, now, session, depth,
                  advisorVars >>

\* the Auto / Pause button
ToggleStatus ==
  /\ AdmitClick(Auto)
  /\ status' = IF status = "RUNNING" THEN "PAUSED" ELSE "RUNNING"
  /\ last' = [op |-> "status"]
  /\ UNCHANGED << engine, cfgVars, uiSnapshot, now, depth, advisorVars >>

\* time passes: the fast-exit window of the players who entered so far
\* closes.  Only `Date.now() - p.timestamp < 10000` reads the clock, so two
\* instants - inside and outside that window - are all it can tell apart.
Tick ==
  /\ Free
  /\ now = 0
  /\ now' = FAST_EXIT_MS
  /\ UNCHANGED << engine, cfgVars, status, uiSnapshot, session, depth, last,
                  advisorVars >>

\* the setInterval(syncUI, 200) callback
SyncUI ==
  /\ Free
  /\ uiSnapshot' = syncUI(engine, Config)
  /\ last' = [op |-> "sync"]
  /\ UNCHANGED << engine, cfgVars, status, now, session, depth, advisorVars >>

Next ==
  \/ ManualDeposit
  \/ TimerDeposit
  \/ MidnightReset
  \/ FullReset
  \/ SetMultiplier
  \/ SetStrategy
  \/ ToggleGuillotine
  \/ ToggleDecay
  \/ ToggleTax
  \/ ToggleStatus
  \/ Tick

Spec == Init /\ [][Next]_vars

\* the page with its render timer: setInterval(syncUI, 200) runs beside the
\* handlers, from the start or behind a long queue
InitUI ==
  /\ Init
  /\ \/ session = <<>>
     \/ session = DecaySession /\ multiplier = DEFAULT_MULTIPLIER

NextUI == Next \/ SyncUI

SpecUI == InitUI /\ [][NextUI]_vars

\* processDeposit as an entry point of its own (the Driver -> Engine
\* interface), called with an amount no handler of the page passes
InvalidAmounts == { 0, 0 - MANUAL_DEPOSIT }
\* and a positive amount under the 1-unit floor of the fee: 0.50
DriverAmounts == { Units(a) : a \in InvalidAmounts } \cup { Scale \div 2 }

DriverDeposit ==
  /\ Free
  /\ depth < MaxDepth
  /\ depth' = depth + 1
  /\ UNCHANGED session
  /\ \E a \in DriverAmounts : Deposit(a)
  /\ uiSnapshot' = Seen(uiSnapshot, Written(last'.dep, engine'))

NextDriver == Next \/ DriverDeposit

SpecDriver == Init /\ [][NextDriver]_vars

\* ------------------------------------------------- deposits keep arriving
\* the interval callback alone: the page is started once and then left to
\* its timer, which draws MaxArrivals amounts and the free ones after them.
\* STANDARD, every switch off, no settlement, no reset.
RECURSIVE Arrivals(_)
Arrivals(n) ==
  IF n = 0 THEN { <<>> }
  ELSE { << Timer(a) >> \o r : a \in TimerAmounts, r \in Arrivals(n - 1) }

InitLive ==
  \E r \in Arrivals(MaxArrivals), m \in Multipliers :
    Start(Opening(<< Auto >> \o r, m, "STANDARD"), Deployed)

NextLive == ToggleStatus \/ TimerDeposit

\* what a TimerDeposit step does to the session: the step is a TimerDeposit
\* step exactly when it is one of these
TimerArrives ==
  /\ status = "RUNNING"
  /\ \E a \in TimerDraws : Admit(Timer(a))

\* setInterval(..., 100) calls back for as long as status is RUNNING: the
\* next deposit of the timer is not put off forever
SpecLive ==
  InitLive /\ [][NextLive]_vars /\ WF_<< session, depth >>(TimerArrives)

\* ------------------------------------------------------- the audit panel
\* the builds: no key; a key but `new GoogleGenAI` threw; key and client
Environments ==
  { [apiKey |-> FALSE, ai |-> FALSE],
    [apiKey |-> TRUE, ai |-> FALSE],
    Deployed }

\* how generateContent ends: with text, with no text, or rejected
Outcomes == { "text", "empty", "rejected" }

\* analyzeRisk: the string it resolves to ("commentary" stands for the
\* collaborator's free text)
analyzeRisk(client, outcome) ==
  IF ~client THEN "API Key missing. Cannot generate analysis."
  ELSE IF outcome = "rejected"
    THEN "An error occurred while analyzing the simulation data."
  ELSE IF outcome = "empty" THEN "No analysis generated."
  ELSE "commentary"

\* the Run Audit button is disabled={isAnalyzing || stats.totalUsers === 0}
AuditEnabled == ~isAnalyzing /\ uiSnapshot.stats.totalUsers > 0

\* handleAnalyze up to its await
HandleAnalyze ==
  /\ Free
  /\ AuditEnabled
  /\ ~pending
  /\ IF ~apiKey
       THEN /\ analysis' = "Error: API Key not found."
            /\ last' = [op |-> "analyze", ended |-> TRUE, outcome |-> "nokey"]
            /\ UNCHANGED << isAnalyzing, pending >>
       ELSE /\ isAnalyzing' = TRUE
            /\ pending' = TRUE
            /\ last' = [op |-> "analyze", ended |-> FALSE, outcome |-> "none"]
            /\ UNCHANGED analysis
  /\ UNCHANGED << engine, cfgVars, status, uiSnapshot, now, session, depth,
                  apiKey, ai >>

\* variant: a rejected call escapes analyzeRisk, and handleAnalyze stops at
\* its await
AnalyzeReturn_throws ==
  /\ pending
  /\ \E outcome \in Outcomes :
       /\ last' = [op |-> "analyze", ended |-> TRUE, outcome |-> outcome]
       /\ IF ai /\ outcome = "rejected"
            THEN UNCHANGED << analysis, isAnalyzing >>
            ELSE /\ analysis' = analyzeRisk(ai, outcome)
                 /\ isAnalyzing' = FALSE
  /\ pending' = FALSE
  /\ UNCHANGED << engine, cfgVars, status, uiSnapshot, now, session, depth,
                  apiKey, ai >>

\* handleAnalyze after its await: setAnalysis(result); setIsAnalyzing(false)
AnalyzeReturn ==
  /\ pending
  /\ \E outcome \in Outcomes :
       /\ analysis' = analyzeRisk(ai, outcome)
       /\ last' = [op |-> "analyze", ended |-> TRUE, outcome |-> outcome]
  /\ isAnalyzing' = FALSE
  /\ pending' = FALSE
  /\ UNCHANGED << engine, cfgVars, status, uiSnapshot, now, session, depth,
                  apiKey, ai >>

\* the page in every build; the first deposit enables the Run Audit button
InitAdvisor ==
  \E env \in Environments :
    Start(Opening(<< Manual >>, DEFAULT_MULTIPLIER, "STANDARD"), env)

\* the requests beside the engine operations, under one configuration
NextAdvisor ==
  \/ ManualDeposit
  \/ TimerDeposit
  \/ MidnightReset
  \/ ToggleStatus
  \/ HandleAnalyze
  \/ AnalyzeReturn

SpecAdvisor == InitAdvisor /\ [][NextAdvisor]_vars

\* ----------------------------------------------------------------- shape
TypeOK ==
  /\ multiplier \in Multipliers
  /\ strategy \in Strategies
  /\ status \in { "IDLE", "RUNNING", "PAUSED" }
  /\ depth \in 0..MaxDepth
  /\ engine.protocolBalance >= 0

\* --------------------------------------------------- reading the last call
\* Every handler overwrites `last`, so while last.op is "deposit" or
\* "midnight" the configuration is the one that call ran under.
IsDeposit == last.op = "deposit"
IsMidnight == last.op = "midnight"
\* last.dep is a processDeposit call: a deposit, or the seed of a reset
RanDeposit == IsDeposit \/ (IsMidnight /\ last.mid.seeded)

Ids(q) == { q[i].id : i \in DOMAIN q }
Pos(q, id) == CHOOSE i \in DOMAIN q : q[i].id = id
SumCollected(q) == SumSeq([i \in DOMAIN q |-> q[i].collected])
Need(p) == Max(0, p.target - p.collected)
TotalNeed(q) == SumSeq([i \in DOMAIN q |-> Need(q[i])])
Principal(p) == Max(0, p.deposit - p.collected)
WithinTarget(q) ==
  \A i \in DOMAIN q : 0 <= q[i].collected /\ q[i].collected <= q[i].target + EPS
NonNegative(q) == \A i \in DOMAIN q : 0 <= q[i].collected
AllOff(cfg) ==
  ~cfg.guillotineEnabled /\ ~cfg.dynamicDecayEnabled /\ ~cfg.winnersTaxEnabled

\* ------------------------------------------------------------------ claims
\* C1 (as stated): for every participant, in every state the operations go
\* through - the queue between calls and, inside a call, the queue after the
\* slash, after the yield credit, after the head walk and after the
\* settlement refund - 0 <= collected <= target + 0.01.
C1_WithinTargetInsideCalls ==
  /\ WithinTarget(engine.queue)
  /\ RanDeposit =>
       /\ WithinTarget(last.dep.afterSlash)
       /\ WithinTarget(last.dep.afterYield)
       /\ WithinTarget(last.dep.afterWalk)
  /\ IsMidnight => WithinTarget(last.mid.afterRefund)

\* C1 (amended): between calls every queued participant has
\* 0 <= collected <= target + 0.01, and inside a call collected is never
\* negative; the upper bound is not kept inside a call.
C1_WithinTargetBetweenCalls ==
  /\ WithinTarget(engine.queue)
  /\ RanDeposit =>
       /\ NonNegative(last.dep.afterSlash)
       /\ NonNegative(last.dep.afterYield)
       /\ NonNegative(last.dep.afterWalk)
  /\ IsMidnight => NonNegative(last.mid.afterRefund)

\* a deposit paid a queued participant part of its target and it stays queued
C1_Witness ==
  /\ IsDeposit
  /\ \E i \in DOMAIN engine.queue : engine.queue[i].collected > 0

\* C2: no step raises a participant's target, and a target changes only in
\* the slash of that participant: through the stages of processDeposit
\* (slash, yield credit, head walk, sweep) and the refund of a settlement.
C2_TargetNeverIncreases ==
  /\ RanDeposit =>
       LET pre   == last.dep.pre.queue
           slash == last.dep.afterSlash
           yield == last.dep.afterYield
           walk  == last.dep.afterWalk
           out   == last.dep.exited
       IN /\ Len(slash) = Len(pre) /\ Len(yield) = Len(pre) /\ Len(walk) = Len(pre)
          /\ \A i \in DOMAIN pre :
               /\ slash[i].id = pre[i].id
               /\ slash[i].target <= pre[i].target
               /\ slash[i].target # pre[i].target =>
                    last.dep.slashDue /\ slash[i].slashed /\ ~pre[i].slashed
               /\ yield[i].target = slash[i].target
               /\ walk[i].target = slash[i].target
          /\ \A k \in DOMAIN engine.queue :
               engine.queue[k].id \in Ids(walk) =>
                 engine.queue[k].target = walk[Pos(walk, engine.queue[k].id)].target
          /\ \A k \in DOMAIN out :
               out[k].id \in Ids(walk) =>
                 out[k].target = walk[Pos(walk, out[k].id)].target
  /\ IsMidnight =>
       LET pre == last.mid.pre.queue
           ref == last.mid.afterRefund
       IN /\ Len(ref) = Len(pre)
          /\ \A i \in DOMAIN pre : ref[i].target = pre[i].target

\* the guillotine lowered a target
C2_Witness ==
  /\ IsDeposit
  /\ last.dep.slashDue
  /\ \E i \in DOMAIN last.dep.pre.queue :
       last.dep.afterSlash[i].target < last.dep.pre.queue[i].target

\* C3: the queue never holds two participants with the same id (the
\* PROTOCOL_SEED id included), and processDeposit keeps FIFO order: those that
\* remain keep their relative order and the new participant is at the tail.
C3_NoDuplicatesFifo ==
  LET q == engine.queue IN
  /\ \A i, j \in DOMAIN q : i # j => q[i].id # q[j].id
  /\ RanDeposit =>
       LET pre == last.dep.pre.queue
           new == last.dep.newPlayer.id
       IN /\ \A i \in DOMAIN q : q[i].id = new \/ q[i].id \in Ids(pre)
          /\ \A i \in DOMAIN q : q[i].id = new => i = Len(q)
          /\ \A i, j \in DOMAIN q :
               (i < j /\ q[i].id \in Ids(pre) /\ q[j].id \in Ids(pre)) =>
                 Pos(pre, q[i].id) < Pos(pre, q[j].id)

\* a deposit removed a participant from the middle of the line and left
\* others queued behind the new one's predecessors
C3_Witness ==
  /\ IsDeposit
  /\ Len(last.dep.exited) > 0
  /\ Len(engine.queue) >= 3

\* C4: under STANDARD with every modifier off, a non-system deposit of amount
\* A raises the collected amounts of the participants queued before the call,
\* in the distribution, by min(netAmount, their total remaining need) in
\* all, where netAmount = A - max(1, A * feeRate).
C4_Conservation ==
  (IsDeposit /\ strategy = "STANDARD" /\ AllOff(Config)) =>
    LET A   == last.dep.amount
        net == A - Max(Units(1), A \div 100)
        pre == last.dep.pre.queue
    IN SumCollected(last.dep.afterWalk) - SumCollected(pre)
         = Min(net, TotalNeed(pre))

\* the queue could not absorb the whole net amount
C4_Witness ==
  /\ IsDeposit /\ strategy = "STANDARD" /\ AllOff(Config)
  /\ Len(last.dep.pre.queue) > 0
  /\ last.dep.unallocated > 0

\* C5: a non-system processDeposit credits the reserve with exactly
\* fee = max(1, amount * feeRate) at fee extraction and distributes
\* netAmount = amount - fee; a system seed pays no fee, credits nothing to
\* the reserve and distributes netAmount = amount.
C5_FeeExtraction ==
  RanDeposit =>
    LET d   == last.dep
        fee == IF d.isSystem THEN 0 ELSE Max(Units(1), d.amount \div 100)
    IN /\ d.balanceAfterFee = d.pre.protocolBalance + fee
       /\ d.net = d.amount - fee
       /\ d.headPool + d.yieldPool = d.net
       /\ engine.protocolBalance = d.pre.protocolBalance + fee + d.tax
       /\ d.isSystem => engine.protocolBalance = d.pre.protocolBalance

\* a deposit of 10 paid the minimum fee of 1, not 1%
C5_Witness ==
  /\ IsDeposit
  /\ last.dep.amount = Units(10)
  /\ last.dep.fee = Units(1)

\* C6: a processDeposit with a non-positive amount changes nothing: queue,
\* reserveBalance, totalDeposited, exitedCount, exitedValueSum, eventCounter
\* and the telemetry series are what they were before the call.
C6_NonPositiveRejected ==
  (IsDeposit /\ last.dep.amount <= 0) => engine = last.dep.pre

\* C7: the sweep that ends processDeposit removes exactly the participants
\* with collected >= target - 0.01; each removed one has collected set to its
\* target, adds 1 to exitedCount and its current target to exitedValueSum,
\* and is no longer queued.
C7_ExitSweep ==
  RanDeposit =>
    LET d      == last.dep
        pushed == Append(d.afterWalk, d.newPlayer)
        paid   == { i \in DOMAIN pushed :
                      pushed[i].collected >= pushed[i].target - EPS }
        out    == d.exited
    IN /\ \A i \in DOMAIN pushed :
            IF i \in paid
            THEN /\ pushed[i].id \notin Ids(engine.queue)
                 /\ \E k \in DOMAIN out :
                      out[k] = [pushed[i] EXCEPT !.collected = pushed[i].target]
            ELSE \E k \in DOMAIN engine.queue : engine.queue[k] = pushed[i]
       /\ Len(engine.queue) + Len(out) = Len(pushed)
       /\ Len(out) = Cardinality(paid)
       /\ engine.historyCount = d.pre.historyCount + Cardinality(paid)
       /\ engine.historySum = d.pre.historySum
            + SumSeq([i \in DOMAIN pushed |->
                        IF i \in paid THEN pushed[i].target ELSE 0])

\* a participant had collected more than its target when the sweep took it
C7_Witness ==
  /\ IsDeposit
  /\ \E i \in DOMAIN last.dep.afterWalk :
       last.dep.afterWalk[i].collected > last.dep.afterWalk[i].target
  /\ Len(last.dep.exited) > 0

\* C8: the refund phase pays in FIFO order, each participant at most
\* max(0, deposit - collected); the total paid is min(surplus, sum of the
\* remaining principals) with surplus = max(0, reserve - floor); a later
\* participant is paid only once every earlier one has its principal back,
\* and no refund raises collected above deposit.
C8_RefundPhase ==
  IsMidnight =>
    LET pre     == last.mid.pre.queue
        ref     == last.mid.afterRefund
        surplus == Max(0, last.mid.pre.protocolBalance - Units(1000))
        pay(i)  == ref[i].collected - pre[i].collected
    IN /\ Len(ref) = Len(pre)
       /\ \A i \in DOMAIN pre :
            /\ 0 <= pay(i) /\ pay(i) <= Principal(pre[i])
            /\ pay(i) > 0 => ref[i].collected <= ref[i].deposit
            /\ [ref[i] EXCEPT !.collected = pre[i].collected] = pre[i]
       /\ SumSeq([i \in DOMAIN pre |-> pay(i)])
            = Min(surplus, SumSeq([i \in DOMAIN pre |-> Principal(pre[i])]))
       /\ \A i, j \in DOMAIN pre :
            (i < j /\ pay(j) > 0) => Principal(ref[i]) = 0

\* the surplus outlasted the head: a second participant was refunded
C8_Witness ==
  /\ IsMidnight
  /\ \E i, j \in DOMAIN last.mid.pre.queue :
       /\ i < j
       /\ last.mid.afterRefund[i].collected > last.mid.pre.queue[i].collected
       /\ last.mid.afterRefund[j].collected > last.mid.pre.queue[j].collected

\* C9 (as stated): for every pre-state, after the refund phase the reserve
\* is reserveFloor plus the surplus left unrefunded.
C9_ReserveIsFloorPlusSurplus ==
  IsMidnight =>
    last.mid.balanceAfterRefund = Units(1000) + last.mid.surplusLeft

\* C9 (amended): the refund phase takes from the reserve exactly what it
\* refunded; when the reserve was at or above the floor that leaves
\* reserveFloor plus the unrefunded surplus, and a reserve below the floor
\* is left as it was.
C9_ReserveAfterRefund ==
  IsMidnight =>
    LET m        == last.mid
        refunded == SumCollected(m.afterRefund) - SumCollected(m.pre.queue)
        surplus  == Max(0, m.pre.protocolBalance - Units(1000))
    IN /\ m.balanceAfterRefund = m.pre.protocolBalance - refunded
       /\ m.surplusLeft = surplus - refunded
       /\ m.pre.protocolBalance >= Units(1000) =>
            m.balanceAfterRefund = Units(1000) + m.surplusLeft
       /\ m.pre.protocolBalance < Units(1000) =>
            m.balanceAfterRefund = m.pre.protocolBalance

\* a settlement found a surplus above the floor and refunded from it
C9_Witness ==
  /\ IsMidnight
  /\ last.mid.pre.protocolBalance > Units(1000)
  /\ last.mid.balanceAfterRefund < last.mid.pre.protocolBalance

\* C10: performSettlement drops every participant queued before it and adds
\* exactly 1 to currentEpoch; with a reserve of at least 100 after the
\* refund it takes 100 from the reserve and leaves one PROTOCOL_SEED
\* participant (deposit 100, collected 0, target 100 * baseMultiplier, entry
\* epoch the new epoch); otherwise it leaves the queue empty and the reserve
\* as the refund left it.
C10_WipeAndReseed ==
  IsMidnight =>
    LET m == last.mid
        q == engine.queue
    IN /\ engine.currentRound = m.pre.currentRound + 1
       /\ IF m.balanceAfterRefund >= Units(100)
          THEN /\ engine.protocolBalance = m.balanceAfterRefund - Units(100)
               /\ Len(q) = 1
               /\ q[1].id = PROTOCOL_SEED
               /\ q[1].deposit = Units(100)
               /\ q[1].collected = 0
               /\ q[1].target = Units(1) * multiplier
               /\ q[1].entryRound = engine.currentRound
          ELSE /\ q = <<>>
               /\ engine.protocolBalance = m.balanceAfterRefund

\* a settlement with a reserve under 100 left the queue empty
C10_Witness ==
  /\ IsMidnight
  /\ last.mid.balanceAfterRefund < Units(100)
  /\ engine.queue = <<>>

\* C11: one guillotine trigger on a queue of at least 5 members changes at
\* most 10 participants (a set, so all distinct); every one of them was not
\* slashed before and has fewer than 30 not-slashed members with a larger
\* remaining liability target - collected; its target becomes 0.80 times
\* the target before the trigger (once, not twice) and its flag becomes
\* true; every other participant is unchanged, and nobody's collected,
\* deposit or position changes.
C11_GuillotineSelection ==
  (RanDeposit /\ last.dep.slashDue /\ Len(last.dep.pre.queue) >= 5) =>
    LET pre     == last.dep.pre.queue
        post    == last.dep.afterSlash
        victims == { i \in DOMAIN pre : post[i] # pre[i] }
        above(i) == { j \in DOMAIN pre :
                        /\ ~pre[j].slashed
                        /\ pre[j].target - pre[j].collected
                             > pre[i].target - pre[i].collected }
    IN /\ Len(post) = Len(pre)
       /\ Cardinality(victims) <= 10
       /\ \A i \in DOMAIN pre :
            /\ post[i].id = pre[i].id
            /\ post[i].collected = pre[i].collected
            /\ post[i].deposit = pre[i].deposit
       /\ \A i \in victims :
            /\ ~pre[i].slashed
            /\ post[i].slashed
            /\ post[i].target = (pre[i].target * 80) \div 100
            /\ Cardinality(above(i)) < 30

\* a trigger found eleven not-slashed participants behind three slashed
\* ones and slashed ten of the eleven
C11_Witness ==
  /\ IsDeposit
  /\ last.dep.slashDue
  /\ LET pre  == last.dep.pre.queue
         post == last.dep.afterSlash
     IN /\ Cardinality({ i \in DOMAIN pre : pre[i].slashed }) = 3
        /\ Cardinality({ i \in DOMAIN pre : ~pre[i].slashed }) = 11
        /\ Cardinality({ i \in DOMAIN pre : post[i] # pre[i] }) = 10

\* C12: a processDeposit call (the seed of a settlement included) runs the
\* guillotine if and only if guillotineEnabled is true and the event
\* counter, after the call's increment, is a multiple of 60.  When it does
\* not run, or the queue has fewer than 5 members, the queue is unchanged;
\* when it runs on 5 or more members with a not-slashed one, somebody is
\* slashed.  It runs before the fee and the distribution: it sees the
\* collected amounts the call started with, and the yield credit, the head
\* walk and the sweep work with the slashed targets.
C12_GuillotineTiming ==
  RanDeposit =>
    LET d    == last.dep
        pre  == d.pre.queue
        post == d.afterSlash
        due  == guillotineEnabled /\ (d.pre.tickCount + 1) % 60 = 0
    IN /\ engine.tickCount = d.pre.tickCount + 1
       /\ d.slashDue = due
       /\ (~due \/ Len(pre) < 5) => post = pre
       /\ (due /\ Len(pre) >= 5 /\ \E i \in DOMAIN pre : ~pre[i].slashed) =>
            \E i \in DOMAIN pre : post[i].slashed /\ ~pre[i].slashed
       /\ Len(post) = Len(pre)
       /\ \A i \in DOMAIN pre :
            /\ post[i].collected = pre[i].collected
            /\ d.afterYield[i].target = post[i].target
            /\ d.afterWalk[i].target = post[i].target
            /\ d.afterWalk[i].collected - d.afterYield[i].collected
                 <= Max(0, post[i].target - d.afterYield[i].collected)
       /\ \A k \in DOMAIN d.exited :
            d.exited[k].id \in Ids(post) =>
              d.exited[k].collected = post[Pos(post, d.exited[k].id)].target

\* the 60th deposit slashed a participant and paid it out in the same call,
\* up to the slashed target
C12_Witness ==
  /\ IsDeposit
  /\ last.dep.slashDue
  /\ \E i \in DOMAIN last.dep.pre.queue :
       /\ last.dep.afterSlash[i].target < last.dep.pre.queue[i].target
       /\ \E k \in DOMAIN last.dep.exited :
            /\ last.dep.exited[k].id = last.dep.pre.queue[i].id
            /\ last.dep.exited[k].collected = last.dep.afterSlash[i].target

\* the 60th deposit, guillotine on, found three participants queued
C12_ThinCrowd ==
  /\ IsDeposit
  /\ last.dep.slashDue
  /\ Len(last.dep.pre.queue) = 3

\* C13: the participant a processDeposit call creates has
\* target = amount * m, where m = max(1.1, baseMultiplier - 0.05 *
\* floor(queueLength / 10)) if dynamicDecayEnabled is true and the deposit
\* is not a system seed, with queueLength the length of the queue the call
\* started with, and m = baseMultiplier otherwise; 1.1 <= m <=
\* baseMultiplier.  The participant enters the queue, or leaves in the
\* sweep, with that target.
C13_DecayMultiplier ==
  RanDeposit =>
    LET d    == last.dep
        np   == d.newPlayer
        qlen == Len(d.pre.queue)
        m    == IF dynamicDecayEnabled /\ ~d.isSystem
                THEN Max(110, multiplier - 5 * (qlen \div 10))
                ELSE multiplier
    IN /\ np.deposit = d.amount
       /\ np.target = (d.amount \div 100) * m
       /\ 110 <= m /\ m <= multiplier
       /\ \/ \E i \in DOMAIN engine.queue : engine.queue[i] = np
          \/ \E k \in DOMAIN d.exited :
               /\ d.exited[k].id = np.id
               /\ d.exited[k].target = np.target

\* a deposit behind 22 queued participants, decay on, base multiplier 2.0:
\* the new participant's target is 1.9 times its deposit
C13_Witness ==
  /\ IsDeposit
  /\ dynamicDecayEnabled
  /\ multiplier = 200
  /\ Len(last.dep.pre.queue) = 22
  /\ last.dep.newPlayer.target = (last.dep.amount \div 100) * 190

\* C14: under COMMUNITY_YIELD a processDeposit call splits the net amount
\* into yieldPool = 20% and headPool = 80%, which add up to the net amount.
\* When the queue is not empty, every participant queued before the call is
\* credited yieldPool / queueLength before the head walk, whatever its
\* target; the head walk starts from the credited amounts and hands out
\* headPool; the participant the call creates gets no share.
C14_CommunityYield ==
  (RanDeposit /\ strategy = "COMMUNITY_YIELD") =>
    LET d     == last.dep
        pre   == d.afterSlash
        yield == d.afterYield
        walk  == d.afterWalk
        n     == Len(d.pre.queue)
    IN /\ d.net = d.amount - d.fee
       /\ d.yieldPool = (d.net * 20) \div 100
       /\ d.headPool = (d.net * 80) \div 100
       /\ d.yieldPool + d.headPool = d.net
       /\ Len(yield) = n /\ Len(walk) = n
       /\ \A i \in DOMAIN yield :
            /\ yield[i].collected = pre[i].collected + d.yieldPool \div n
            /\ walk[i].collected >= yield[i].collected
       /\ SumCollected(walk) - SumCollected(yield) + d.unallocated = d.headPool
       /\ d.newPlayer.collected = 0
       /\ \A i \in DOMAIN engine.queue :
            engine.queue[i].id = d.newPlayer.id => engine.queue[i].collected = 0

\* a deposit under COMMUNITY_YIELD whose yield share took a queued
\* participant past its target
C14_Witness ==
  /\ IsDeposit
  /\ strategy = "COMMUNITY_YIELD"
  /\ last.dep.yieldPool > 0
  /\ \E i \in DOMAIN last.dep.afterYield :
       /\ last.dep.afterSlash[i].collected < last.dep.afterSlash[i].target
       /\ last.dep.afterYield[i].collected > last.dep.afterYield[i].target

\* C15: in the exit sweep of a processDeposit call, an exit adds 20% of the
\* participant's profit (target - deposit, collected having been set to
\* target) to the reserve exactly when winnersTaxEnabled is true, the
\* deposit is not a system seed, less than 10 seconds have passed since the
\* participant entered, and the profit is positive; any other exit adds
\* nothing; the reserve after the call is the reserve after the fee plus
\* these amounts, and an exited participant's collected stays at its target.
C15_WinnersTax ==
  RanDeposit =>
    LET d      == last.dep
        out    == d.exited
        callMs == d.newPlayer.timestamp
        taxOf(p) ==
          IF /\ winnersTaxEnabled
             /\ ~d.isSystem
             /\ callMs - p.timestamp < 10000
             /\ p.target - p.deposit > 0
          THEN ((p.target - p.deposit) * 20) \div 100
          ELSE 0
    IN /\ \A k \in DOMAIN out : out[k].collected = out[k].target
       /\ engine.protocolBalance
            = d.balanceAfterFee + SumSeq([k \in DOMAIN out |-> taxOf(out[k])])
       /\ engine.historySum
            = d.pre.historySum + SumSeq([k \in DOMAIN out |-> out[k].target])

\* a deposit, winners tax on, paid out a participant inside the window with
\* a profit, and the reserve grew by more than the fee
C15_Witness ==
  /\ IsDeposit
  /\ winnersTaxEnabled
  /\ last.dep.tax > 0
  /\ engine.protocolBalance > last.dep.balanceAfterFee
  /\ \E k \in DOMAIN last.dep.exited :
       last.dep.exited[k].collected = last.dep.exited[k].target

\* C16: the telemetry series never has more than 100 entries.  Every
\* processDeposit call, the seed of a settlement included, appends one
\* sample made of totalDeposited, the queue length and the sum over the
\* queue of target - collected, all as they are after the call's sweep;
\* a series of 100 loses its oldest sample and keeps the others in order.
\* A settlement that plants no seed leaves the series as it was.
C16_Telemetry ==
  /\ Len(engine.chartData) <= 100
  /\ RanDeposit =>
       LET old    == last.dep.pre.chartData
           sample == [ round |-> engine.totalDeposited,
                       usersTrapped |-> Len(engine.queue),
                       requiredNewLiquidity |->
                         SumSeq([i \in DOMAIN engine.queue |->
                           engine.queue[i].target - engine.queue[i].collected]) ]
       IN engine.chartData
            = IF Len(old) < 100 THEN Append(old, sample)
              ELSE Append(Tail(old), sample)
  /\ IsMidnight =>
       IF last.mid.seeded
       THEN last.dep.pre.chartData = last.mid.pre.chartData
       ELSE engine.chartData = last.mid.pre.chartData

\* a deposit found 100 samples: the oldest is gone, the new one is last
C16_Witness ==
  /\ IsDeposit
  /\ Len(last.dep.pre.chartData) = 100
  /\ Len(engine.chartData) = 100
  /\ engine.chartData[1] = last.dep.pre.chartData[2]
  /\ engine.chartData[100].round = engine.totalDeposited

\* what C17 says of a snapshot s taken of engine state e
C17_Describes(s, e) ==
  /\ s.stats.totalUsers = e.historyCount + Len(e.queue)
  /\ s.stats.totalPaidOut = e.historySum
  /\ Len(s.queueSlice) = IF Len(e.queue) < 8 THEN Len(e.queue) ELSE 8
  /\ \A i \in DOMAIN s.queueSlice : s.queueSlice[i] = e.queue[i]
  /\ s.headPlayer = IF e.queue = <<>> THEN <<>> ELSE << e.queue[1] >>

\* C17: a syncUI call leaves the engine as it was, and the snapshot it
\* returns has totalUsers = exitedCount + queue length, totalPaidOut =
\* exitedValueSum, the first 8 participants of the queue in order as its
\* slice and the first participant, or null, as its head; as long as
\* nothing has changed since, another call returns the same snapshot.
C17_Snapshot ==
  /\ [][last'.op = "sync" =>
          /\ engine' = engine
          /\ C17_Describes(uiSnapshot', engine)]_vars
  /\ [](last.op = "sync" => uiSnapshot = syncUI(engine, Config))

\* the render timer took a snapshot of a queue of more than 8
C17_Witness ==
  /\ last.op = "sync"
  /\ Len(engine.queue) > 8
  /\ Len(uiSnapshot.queueSlice) = 8
  /\ uiSnapshot.stats.totalUsers = Len(engine.queue) + engine.historyCount

\* C18: after handleFullReset, whatever the state before, the engine is in
\* its initial state: empty queue, exitedCount 0, exitedValueSum 0,
\* totalDeposited 0, reserve 1000, epoch 1, no telemetry, event counter 0.
C18_ResetToInitial ==
  last.op = "reset" =>
    /\ engine.queue = <<>>
    /\ engine.historyCount = 0
    /\ engine.historySum = 0
    /\ engine.totalDeposited = 0
    /\ engine.protocolBalance = Units(1000)
    /\ engine.currentRound = 1
    /\ engine.chartData = <<>>
    /\ engine.tickCount = 0
    /\ DOMAIN engine = { "queue", "historyCount", "historySum", "totalDeposited",
                         "protocolBalance", "currentRound", "chartData",
                         "tickCount" }

\* a reset after more than 100 deposits
C18_Witness ==
  /\ last.op = "reset"
  /\ last.ticks > 100
  /\ engine.tickCount = 0

\* C19 (as stated): whenever dynamic decay and the guillotine are off,
\* every queued participant has target = deposit * the current base
\* multiplier.
C19_TargetsFollowMultiplier ==
  (~dynamicDecayEnabled /\ ~guillotineEnabled) =>
    \A i \in DOMAIN engine.queue :
      engine.queue[i].target = (engine.queue[i].deposit \div 100) * multiplier

\* C19 (amended): a step that changes the strategy or the base multiplier
\* leaves the engine in its initial state, with an empty queue; a
\* participant created while dynamic decay is off gets target = deposit *
\* the current base multiplier; and from one state to the next a queued
\* participant keeps its deposit, and its target unless it is slashed in
\* that step.
C19_ChangeResets ==
  /\ [][(multiplier' # multiplier \/ strategy' # strategy) =>
          /\ engine'.queue = <<>>
          /\ engine'.tickCount = 0
          /\ engine'.totalDeposited = 0
          /\ engine'.protocolBalance = Units(1000)]_vars
  /\ []((RanDeposit /\ ~dynamicDecayEnabled) =>
          last.dep.newPlayer.target = (last.dep.amount \div 100) * multiplier)
  /\ [][\A i \in DOMAIN engine.queue : \A j \in DOMAIN engine'.queue :
          (/\ engine'.queue[j].id = engine.queue[i].id
           /\ engine'.queue[j].entryRound = engine.queue[i].entryRound) =>
            /\ engine'.queue[j].deposit = engine.queue[i].deposit
            /\ \/ engine'.queue[j].target = engine.queue[i].target
               \/ engine'.queue[j].slashed /\ ~engine.queue[i].slashed]_vars

\* the slider was moved while deposits had been made: the queue is empty
C19_Witness ==
  /\ last.op = "reset"
  /\ last.by = "multiplier"
  /\ last.ticks > 0
  /\ engine.queue = <<>>

\* the five counters of C20 do not decrease from engine state a to b
C20_NotBelow(a, b) ==
  /\ b.totalDeposited >= a.totalDeposited
  /\ b.historyCount >= a.historyCount
  /\ b.historySum >= a.historySum
  /\ b.tickCount >= a.tickCount
  /\ b.currentRound >= a.currentRound

\* C20: as long as the engine is not reset, totalDeposited, exitedCount,
\* exitedValueSum, the event counter and the epoch never decrease.  A
\* processDeposit call (the seed of a settlement included) adds exactly its
\* gross amount to totalDeposited and 1 to the event counter and leaves the
\* epoch alone; the epoch changes only in a settlement, by exactly 1.
C20_MonotonicCounters ==
  /\ [](RanDeposit =>
          /\ engine.totalDeposited = last.dep.pre.totalDeposited + last.dep.amount
          /\ engine.tickCount = last.dep.pre.tickCount + 1
          /\ engine.currentRound = last.dep.pre.currentRound
          /\ C20_NotBelow(last.dep.pre, engine))
  /\ [](IsMidnight =>
          /\ engine.currentRound = last.mid.pre.currentRound + 1
          /\ C20_NotBelow(last.mid.pre, engine)
          /\ IF last.mid.seeded
             THEN /\ engine.totalDeposited = last.mid.pre.totalDeposited + Units(100)
                  /\ engine.tickCount = last.mid.pre.tickCount + 1
             ELSE /\ engine.totalDeposited = last.mid.pre.totalDeposited
                  /\ engine.tickCount = last.mid.pre.tickCount)
  /\ [][last'.op # "reset" =>
          /\ C20_NotBelow(engine, engine')
          /\ engine'.currentRound # engine.currentRound =>
               /\ last'.op = "midnight"
               /\ engine'.currentRound = engine.currentRound + 1
          /\ engine'.tickCount \in { engine.tickCount, engine.tickCount + 1 }]_vars

\* a settlement after deposits planted its seed: the epoch went up by one,
\* the event counter by one and totalDeposited by the seed's 100
C20_Witness ==
  /\ IsMidnight
  /\ last.mid.seeded
  /\ last.mid.pre.totalDeposited > 0
  /\ engine.currentRound = last.mid.pre.currentRound + 1
  /\ engine.tickCount = last.mid.pre.tickCount + 1
  /\ engine.totalDeposited = last.mid.pre.totalDeposited + Units(100)
\* ------------------------------------------------------------------ C21
FixedMessages ==
  { "Error: API Key not found.",
    "API Key missing. Cannot generate analysis.",
    "An error occurred while analyzing the simulation data." }

\* a step of an analysis request
AdvisorStep ==
  analysis' # analysis \/ isAnalyzing' # isAnalyzing \/ pending' # pending

\* the request ends in this step without commentary: no key, no client, or
\* a failed call
DegradedEnd ==
  /\ last'.op = "analyze"
  /\ last'.ended
  /\ ~apiKey \/ ~ai \/ last'.outcome = "rejected"

\* C21: an analysis request never writes to the engine; when the collaborator
\* is unavailable or its call fails the request ends with one of the fixed
\* messages and with the analyzing flag down; and the flag is up only while a
\* call is awaited, so it never locks the Run Audit button for good.
C21_DegradedAdvisory ==
  /\ [](isAnalyzing <=> pending)
  /\ [][ AdvisorStep =>
          /\ engine' = engine
          /\ DegradedEnd => analysis' \in FixedMessages /\ ~isAnalyzing' ]_vars

\* a deposit went through after a request that ended degraded
C21_Witness ==
  /\ analysis = "An error occurred while analyzing the simulation data."
  /\ ~isAnalyzing
  /\ last.op = "deposit"
  /\ Len(engine.queue) + engine.historyCount = 2

\* ------------------------------------------------------------------ C22
\* C22: the participant a deposit creates records the multiplier used for
\* its target: it has a multiplier field, and target = deposit x that field.
C22_EntryMultiplier ==
  IsDeposit =>
    LET p == last.dep.newPlayer IN
      /\ "multiplier" \in DOMAIN p
      /\ p.target = (p.deposit \div 100) * p.multiplier

\* ------------------------------------------------------------------ C23
\* what the head walk paid to the participant at position i
HeadPaid(d, i) == d.afterWalk[i].collected - d.afterYield[i].collected
\* the head pool left when the walk reaches position i
PoolAt(d, i) ==
  d.headPool - SumSeq([j \in 1..(i - 1) |-> HeadPaid(d, j)])

\* C23: the head walk pays by queue position.  It removes and reorders
\* nobody; a participant is paid only if everyone ahead ends the walk with
\* need <= 0; a participant whose need is <= 0 is paid nothing; and every
\* other one is paid min(pool left, need).
C23_HeadWalkOrder ==
  RanDeposit =>
    LET d == last.dep
        before == d.afterYield
        after == d.afterWalk
    IN /\ Len(after) = Len(before)
       /\ \A i \in DOMAIN before :
            LET need == before[i].target - before[i].collected IN
            /\ after[i].id = before[i].id
            /\ after[i].target = before[i].target
            /\ HeadPaid(d, i) > 0 =>
                 \A j \in 1..(i - 1) : after[j].target - after[j].collected <= 0
            /\ need <= 0 => HeadPaid(d, i) = 0
            /\ need > 0 =>
                 HeadPaid(d, i) = IF PoolAt(d, i) < need THEN PoolAt(d, i) ELSE need

\* the walk passed a participant with nothing left to receive and paid one
\* behind it, and ran out of pool on a later one
C23_Witness ==
  /\ IsDeposit
  /\ \E i, j, k \in DOMAIN last.dep.afterYield :
       /\ i < j /\ j <= k
       /\ last.dep.afterYield[i].target - last.dep.afterYield[i].collected <= 0
       /\ HeadPaid(last.dep, j) > 0
       /\ HeadPaid(last.dep, k) > 0
       /\ last.dep.afterWalk[k].collected < last.dep.afterWalk[k].target

\* ------------------------------------------------------------------ C24
\* the part of the net amount no queued participant received
Unabsorbed(d) ==
  d.net - (SumCollected(d.afterWalk) - SumCollected(d.afterSlash))

\* C24: what the queue does not absorb of a call's net amount is credited to
\* nobody.  The pools of a call are cut from its own net amount only (nothing
\* is carried in); with an empty queue the whole net amount is left over;
\* the reserve grows by the fee and the winners tax and nothing else; the new
\* participant starts at 0; and those who stay queued hold what the walk left
\* them.
C24_UnabsorbedIsLost ==
  RanDeposit =>
    LET d == last.dep
        q == engine.queue
    IN /\ d.headPool + d.yieldPool = d.net
       /\ d.net = d.amount - d.fee
       /\ Unabsorbed(d) >= d.unallocated
       /\ d.unallocated >= 0
       /\ d.pre.queue = <<>> => Unabsorbed(d) = d.net
       /\ engine.protocolBalance = d.pre.protocolBalance + d.fee + d.tax
       /\ d.newPlayer.collected = 0
       /\ \A i \in DOMAIN q :
            IF q[i].id = d.newPlayer.id /\ i = Len(q)
            THEN q[i].collected = 0
            ELSE \E j \in DOMAIN d.afterWalk :
                   /\ d.afterWalk[j].id = q[i].id
                   /\ d.afterWalk[j].collected = q[i].collected

\* a call whose head pool outlasted a non-empty queue under COMMUNITY_YIELD,
\* followed by nothing: the queue holds only the new participant, at 0
C24_Witness ==
  /\ IsDeposit
  /\ strategy = "COMMUNITY_YIELD"
  /\ Len(last.dep.pre.queue) > 0
  /\ last.dep.unallocated > 0
  /\ Len(engine.queue) = 1

\* the first deposit of a COMMUNITY_YIELD page: both pools are left over
C24_EmptyQueue ==
  /\ IsDeposit
  /\ strategy = "COMMUNITY_YIELD"
  /\ last.dep.pre.queue = <<>>
  /\ last.dep.yieldPool > 0
  /\ Unabsorbed(last.dep) = last.dep.net

\* ------------------------------------------------------------------ C25
\* C25: the participant a call creates joins the line after the yield credit
\* and the head walk and gets nothing from its own deposit: neither pass
\* sees it, and when its target exceeds 0.01 it ends the call as the last in
\* the queue, with collected = 0 and the current round as its entry round.
C25_NewcomerLast ==
  (RanDeposit /\ last.dep.newPlayer.target > Scale \div 100) =>
    LET d == last.dep
        q == engine.queue
    IN /\ Len(d.afterYield) = Len(d.pre.queue)
       /\ Len(d.afterWalk) = Len(d.pre.queue)
       /\ \A i \in DOMAIN d.afterWalk : d.afterWalk[i].id \in Ids(d.pre.queue)
       /\ d.newPlayer.id \notin Ids(d.pre.queue)
       /\ q # <<>>
       /\ q[Len(q)].id = d.newPlayer.id
       /\ q[Len(q)].deposit = d.amount
       /\ q[Len(q)].collected = 0
       /\ q[Len(q)].entryRound = engine.currentRound
       /\ \A i \in 1..(Len(q) - 1) : q[i].id # d.newPlayer.id

\* a call that paid a head pool to others, left some of it over, and queued
\* its own participant at 0 behind them in a later round
C25_Witness ==
  /\ IsDeposit
  /\ last.dep.unallocated > 0
  /\ Len(last.dep.exited) > 0
  /\ engine.currentRound > 1
  /\ engine.queue[Len(engine.queue)].collected = 0

\* ------------------------------------------------------------------ C26
\* the guillotine of this call cut the participant at position i
SlashedNow(d, i) ==
  /\ d.slashDue
  /\ d.afterSlash[i].slashed
  /\ ~d.pre.queue[i].slashed

\* the cut left it with collected >= new target - 0.01
SlashedOut(d, i) ==
  /\ SlashedNow(d, i)
  /\ d.afterSlash[i].collected >= d.afterSlash[i].target - Scale \div 100

\* C26 as stated: a participant whose slash leaves it with collected >= new
\* target - 0.01 receives no head payment in the same call, is removed by
\* that call's sweep, and is counted in exitedValueSum with its slashed
\* target, not with what it had collected.
C26_SlashedOutExits ==
  (IsDeposit /\ last.dep.slashDue) =>
    LET d == last.dep
        out == { i \in DOMAIN d.afterSlash : SlashedOut(d, i) }
    IN \A i \in out :
         /\ HeadPaid(d, i) = 0
         /\ d.afterSlash[i].id \notin Ids(engine.queue)
         /\ \E k \in DOMAIN d.exited :
              /\ d.exited[k].id = d.afterSlash[i].id
              /\ d.exited[k].target = (d.pre.queue[i].target * 80) \div 100

\* C26, amended: such a participant receives no head payment in the same
\* call beyond what it lacks to its new target, which is at most 0.01 (and
\* nothing when it has collected the new target or more); it is removed by
\* that call's sweep, and exitedValueSum grows by its slashed target, not by
\* what it had collected.
C26_SlashedOutSwept ==
  (IsDeposit /\ last.dep.slashDue) =>
    LET d == last.dep
        out == { i \in DOMAIN d.afterSlash : SlashedOut(d, i) }
        others == { i \in DOMAIN d.exited :
                      \A j \in out : d.exited[i].id # d.afterSlash[j].id }
    IN /\ \A i \in out :
            LET lacks == d.afterSlash[i].target - d.afterSlash[i].collected IN
            /\ HeadPaid(d, i) >= 0
            /\ HeadPaid(d, i) <= (IF lacks > 0 THEN lacks ELSE 0)
            /\ HeadPaid(d, i) <= Scale \div 100
            /\ d.afterSlash[i].id \notin Ids(engine.queue)
            /\ \E k \in DOMAIN d.exited :
                 /\ d.exited[k].id = d.afterSlash[i].id
                 /\ d.exited[k].target = (d.pre.queue[i].target * 80) \div 100
       /\ engine.historySum - d.pre.historySum
            = SumSeq([i \in DOMAIN d.afterSlash |->
                        IF i \in out THEN (d.pre.queue[i].target * 80) \div 100
                        ELSE 0])
              + SumSeq([i \in DOMAIN d.exited |->
                          IF i \in others THEN d.exited[i].target ELSE 0])

\* a guillotine cut a participant below what it had already collected
C26_Witness ==
  /\ IsDeposit
  /\ last.dep.slashDue
  /\ \E i \in DOMAIN last.dep.afterSlash :
       /\ SlashedOut(last.dep, i)
       /\ last.dep.afterSlash[i].collected > last.dep.afterSlash[i].target

\* the cut left a participant within 0.01 below its new target
C26_Dust ==
  /\ IsDeposit
  /\ last.dep.slashDue
  /\ \E i \in DOMAIN last.dep.afterSlash :
       /\ SlashedOut(last.dep, i)
       /\ last.dep.afterSlash[i].collected < last.dep.afterSlash[i].target

\* ------------------------------------------------------------------ C28
\* C28: a snapshot handed to the page is immutable.  What the page holds
\* shows the same values after a step as before it, unless the step handed
\* over a new snapshot of the engine; no processDeposit, guillotine or
\* settlement changes a value seen through the one it holds.
C28_SnapshotImmutable ==
  [][ uiSnapshot' = uiSnapshot \/ uiSnapshot' = syncUI(engine', Config) ]_vars

\* the timer paid the head of the line while the page held a snapshot of it
C28_Shown ==
  /\ IsDeposit
  /\ uiSnapshot.headPlayer # <<>>
  /\ uiSnapshot.stats.totalDeposited < engine.totalDeposited
  /\ uiSnapshot.headPlayer[1].collected > 0
  /\ uiSnapshot.stats.totalPaidOut = 0
  /\ uiSnapshot.stats.totalDeposited = Units(100)

\* ------------------------------------------------------------------ C29
\* C29: once processDeposit or a settlement has completed, every queued
\* participant has collected < target - 0.01, so the outstanding liability
\* is strictly positive whenever the queue is not empty.
C29_QueuedAreUnpaid ==
  LET q == engine.queue IN
  /\ \A i \in DOMAIN q : q[i].collected < q[i].target - Scale \div 100
  /\ q # <<>> =>
       SumSeq([i \in DOMAIN q |-> q[i].target - q[i].collected]) > 0

\* a deposit swept the paid participants out from between others, some of
\* them slashed, and left the rest queued
C29_Witness ==
  /\ IsDeposit
  /\ last.dep.slashDue
  /\ Len(last.dep.exited) > 0
  /\ Len(engine.queue) >= 2
  /\ \E i \in DOMAIN engine.queue : engine.queue[i].collected > 0

\* a settlement left the seed queued
C29_Settled ==
  /\ IsMidnight
  /\ last.mid.seeded
  /\ Len(engine.queue) = 1

\* ------------------------------------------------------------------ C30
\* the target a participant is created with: deposit x the multiplier in
\* force at its entry
BaseTarget(d) ==
  LET m == IF dynamicDecayEnabled /\ ~d.isSystem
           THEN Max(110, multiplier - 5 * (Len(d.pre.queue) \div 10))
           ELSE multiplier
  IN (d.amount \div 100) * m

\* from a to b the participant was left alone, or was slashed for the first
\* time
AtMostOneSlash(a, b) ==
  \/ b.target = a.target /\ b.slashed = a.slashed
  \/ ~a.slashed /\ b.slashed /\ b.target = (a.target * 80) \div 100

\* C30: a participant is slashed at most once in its lifetime.  It is created
\* not slashed with target = deposit x entry multiplier; every step leaves a
\* participant's target and flag alone or slashes a not-slashed one to 0.80
\* of its target; so its target is always deposit x entry multiplier or 0.80
\* times that.
C30_SlashedOnce ==
  /\ [](RanDeposit =>
         LET d == last.dep IN
         /\ ~d.newPlayer.slashed
         /\ d.newPlayer.target = BaseTarget(d)
         /\ \A i \in DOMAIN d.pre.queue :
              /\ AtMostOneSlash(d.pre.queue[i], d.afterSlash[i])
              /\ AtMostOneSlash(d.afterSlash[i], d.afterWalk[i])
              /\ d.afterWalk[i].slashed = d.afterSlash[i].slashed
         /\ \A k \in DOMAIN d.exited : \A i \in DOMAIN d.pre.queue :
              d.exited[k].id = d.pre.queue[i].id =>
                AtMostOneSlash(d.pre.queue[i], d.exited[k]))
  /\ [][ \A i \in DOMAIN engine.queue : \A j \in DOMAIN engine'.queue :
            SameObject(engine.queue[i], engine'.queue[j]) =>
              AtMostOneSlash(engine.queue[i], engine'.queue[j]) ]_vars

\* a trigger on fewer than 30 participants, so that all of them rank among
\* the top 30, slashed others and passed over a slashed one, which stays
\* queued with the target its one slash gave it
C30_Witness ==
  /\ IsDeposit
  /\ last.dep.slashDue
  /\ LET pre  == last.dep.pre.queue
         post == last.dep.afterSlash
     IN /\ Len(pre) < 30
        /\ \E i, j \in DOMAIN pre :
             /\ pre[i].slashed
             /\ post[i] = pre[i]
             /\ post[j] # pre[j]
             /\ \E k \in DOMAIN engine.queue :
                  /\ engine.queue[k].id = pre[i].id
                  /\ engine.queue[k].target = pre[i].target

\* ------------------------------------------------------------------ C31
\* C31 as stated: reserveBalance is never negative in any state reached by
\* processDeposit, performSettlement and resetEngine, and it decreases only
\* inside performSettlement.
C31_ReserveFloor ==
  /\ [](engine.protocolBalance >= 0)
  /\ [][ engine'.protocolBalance < engine.protocolBalance =>
          last'.op = "midnight" ]_vars

\* C31, amended: reserveBalance is never negative; it decreases only inside
\* performSettlement (by the refunds, and by the 100 of the seed, taken only
\* when the reserve after the refunds is at least 100) and in resetEngine,
\* which sets it back to 1000.
C31_ReserveNeverNegative ==
  /\ [](/\ engine.protocolBalance >= 0
        /\ IsMidnight =>
             LET m == last.mid IN
             /\ m.balanceAfterRefund >= 0
             /\ m.balanceAfterRefund
                  = m.pre.protocolBalance
                      - (SumCollected(m.afterRefund) - SumCollected(m.pre.queue))
             /\ m.seeded <=> m.balanceAfterRefund >= Units(100)
             /\ engine.protocolBalance
                  = m.balanceAfterRefund - (IF m.seeded THEN Units(100) ELSE 0))
  /\ [][ engine'.protocolBalance < engine.protocolBalance =>
          \/ last'.op = "midnight"
          \/ last'.op = "reset" /\ engine'.protocolBalance = Units(1000) ]_vars

\* the seeds have taken the reserve down to 0, and a settlement took no
\* seed from it
C31_Witness ==
  /\ IsMidnight
  /\ ~last.mid.seeded
  /\ last.mid.pre.protocolBalance = 0
  /\ engine.protocolBalance = 0

\* a reset took the reserve down to 1000
C31_ResetLowers ==
  /\ last.op = "reset"
  /\ uiSnapshot.stats.protocolBalance = Units(1000)
  /\ last.ticks > 0

\* ------------------------------------------------------------------ C32
\* C32 as stated: the fee of a non-system deposit of a positive amount does
\* not exceed the amount: netAmount = amount - max(1, amount * feeRate) is
\* never negative, and neither pool cut from it is.
C32_FeeWithinAmount ==
  (IsDeposit /\ ~last.dep.isSystem /\ last.dep.amount > 0) =>
    LET d == last.dep
        fee == IF d.amount \div 100 < Units(1) THEN Units(1) ELSE d.amount \div 100
    IN /\ d.fee = fee
       /\ fee <= d.amount
       /\ d.net = d.amount - fee
       /\ d.net >= 0
       /\ d.headPool >= 0
       /\ d.yieldPool >= 0

\* C32, amended: the fee of a non-system deposit of at least 1 unit, the
\* floor of the fee, does not exceed the amount: netAmount = amount -
\* max(1, amount * feeRate) is never negative, and neither pool cut from it
\* is.
C32_FeeWithinAmountFromOne ==
  (IsDeposit /\ ~last.dep.isSystem /\ last.dep.amount >= Units(1)) =>
    LET d == last.dep
        fee == IF d.amount \div 100 < Units(1) THEN Units(1) ELSE d.amount \div 100
    IN /\ d.fee = fee
       /\ fee <= d.amount
       /\ d.net = d.amount - fee
       /\ d.net >= 0
       /\ d.headPool >= 0
       /\ d.yieldPool >= 0

\* a deposit of 0.50 was charged the 1-unit fee
C32_Small ==
  /\ IsDeposit
  /\ last.dep.amount = Scale \div 2
  /\ last.dep.net < 0

\* the smallest deposit of the timer, on which the 1-unit floor is ten
\* times the rate, split into two pools
C32_Witness ==
  /\ IsDeposit
  /\ last.dep.amount = Units(10)
  /\ last.dep.fee = Units(1)
  /\ last.dep.yieldPool > 0
  /\ last.dep.headPool > last.dep.yieldPool

\* ------------------------------------------------------------------ C33
\* what a call added to the participants' collected amounts: the yield
\* credits and head payments, and what `p.collected = p.target` added to
\* those the sweep took within 0.01 under their target
Credited(d) ==
  LET pushed == Append(d.afterWalk, d.newPlayer)
      lift(p) == IF p.collected >= p.target - Scale \div 100 /\ p.collected < p.target
                 THEN p.target - p.collected ELSE 0
  IN (SumCollected(d.afterWalk) - SumCollected(d.afterSlash))
       + SumSeq([i \in DOMAIN pushed |-> lift(pushed[i])])

\* C33: no processDeposit call creates value: what the call adds to the
\* reserve (the fee and any winners tax) plus what it credits to the
\* participants' collected amounts never exceeds the gross deposit amount.
C33_NoValueCreated ==
  IsDeposit =>
    (engine.protocolBalance - last.dep.pre.protocolBalance)
      + Credited(last.dep) <= last.dep.amount

\* the queue absorbed the whole net amount of a call and the reserve was
\* credited a winners tax on top of the fee
C33_TaxOnTop ==
  /\ IsDeposit
  /\ last.dep.tax > 0
  /\ last.dep.unallocated = 0
  /\ last.dep.fee + Credited(last.dep) = last.dep.amount

\* a call with no winners tax handed out more than it took in
C33_Untaxed ==
  /\ IsDeposit
  /\ last.dep.tax = 0
  /\ ~C33_NoValueCreated

\* ------------------------------------------------------------------ C34
Queued(k) == k \in Ids(engine.queue)
\* what the participants up to and including k are still owed
AheadNeed(k) ==
  LET q == engine.queue
  IN SumSeq([j \in 1..Pos(q, k) |-> Need(q[j])])
\* the net amounts of the deposits the timer is still to bring
ToCome(s) ==
  SumSeq([i \in DOMAIN s |->
            IF s[i].op = "timer" THEN NetAmount(Units(s[i].amount), FALSE) ELSE 0])
\* the deposits to come cover what is owed up to k
Covered(k) == Queued(k) /\ AheadNeed(k) <= ToCome(session)
\* those who left in the last call joined before everybody still queued
ExitedInOrder ==
  IsDeposit =>
    \A i \in DOMAIN last.dep.exited : \A j \in DOMAIN engine.queue :
      last.dep.exited[i].id < engine.queue[j].id

\* C34: under STANDARD with the guillotine off and no settlement or reset,
\* while deposits with a positive net amount keep arriving a queued
\* participant eventually exits - each one that the deposits still to come
\* can pay out does leave the queue - and participants exit in arrival
\* order: nobody exits in an earlier call than one that joined before.
C34_ExitInArrivalOrder ==
  /\ [](ExitedInOrder)
  /\ \A k \in 1..MaxArrivals : Covered(k) ~> ~Queued(k)

\* a participant that joined behind another left in a later call than it,
\* while later arrivals wait
C34_Witness ==
  /\ IsDeposit
  /\ last.dep.exited # <<>>
  /\ last.dep.pre.historyCount >= 1
  /\ engine.queue # <<>>
  /\ \E k \in Ids(last.dep.pre.queue) : ~Queued(k) /\ k >= 2

\* the deposits to come covered a participant behind the head of the line
C34_CoveredBehind ==
  \E k \in 2..MaxArrivals : Covered(k) /\ Pos(engine.queue, k) >= 2

\* ------------------------------------------------------------------ C35
\* C35: a settlement changes neither the count of exited participants nor
\* the sum paid out to them: the wiped participants are not booked as
\* exited, whatever the refund credited them.
C35_SettlementKeepsExitLedger ==
  IsMidnight =>
    /\ engine.historyCount = last.mid.pre.historyCount
    /\ engine.historySum = last.mid.pre.historySum

\* the refund of a settlement brought a participant up to its target and
\* the wipe removed it: the total of users shown went down
C35_Witness ==
  /\ IsMidnight
  /\ \E k \in DOMAIN last.mid.afterRefund :
       /\ ~IsPaid(last.mid.pre.queue[k])
       /\ IsPaid(last.mid.afterRefund[k])
  /\ syncUI(engine, Config).stats.totalUsers
       < syncUI(last.mid.pre, Config).stats.totalUsers

\* ------------------------------------------------------------------ C36
\* the most the winners tax can take from the exits of a call when the
\* protocol's own participant is exempt: 20% of the profit of the others
TaxOfOthers(d) ==
  SumSeq([i \in DOMAIN d.exited |->
            IF d.exited[i].id = PROTOCOL_SEED THEN 0
            ELSE Pct(Max(0, d.exited[i].target - d.exited[i].deposit), TAX_PERCENT)])

\* C36: a PROTOCOL_SEED participant is never charged winners tax: whichever
\* deposit triggers the sweep that removes it, the sweep adds to the reserve
\* no more than the tax of the other participants it removes.
C36_SeedNeverTaxed ==
  RanDeposit =>
    engine.protocolBalance - last.dep.balanceAfterFee <= TaxOfOthers(last.dep)

\* a deposit swept the seed and nobody else, and the reserve grew by 20% of
\* the seed's profit on top of the fee
C36_SeedTaxed ==
  /\ IsDeposit
  /\ Len(last.dep.exited) = 1
  /\ last.dep.exited[1].id = PROTOCOL_SEED
  /\ engine.protocolBalance - last.dep.balanceAfterFee
       = Pct(last.dep.exited[1].target - last.dep.exited[1].deposit, TAX_PERCENT)
  /\ engine.protocolBalance > last.dep.balanceAfterFee

====
